---- MODULE Spec2Model ----
(***************************************************************************)
(* fast-json: a single-pass JSON scanner (lib/FastJson.js) that delivers   *)
(* the raw text of the values named by registered paths.  The scanner is   *)
(* modelled handler by handler; the path trie (lib/EventTree.js) is        *)
(* modelled from its contract.  Offsets are zero-based, as in the code.    *)
(***************************************************************************)
EXTENDS Integers, Sequences, FiniteSets, TLC

VARIABLES _stack, _postColon, _lastString, _skipped, _events,
          data, i, pc, outcome,
          doc, style, toks, clean, faults, calls, looks, skips,
          lexData, lexAt, lexOut

scanner == <<_stack, _postColon, _lastString, _skipped, _events>>
loop == <<data, i, pc, outcome>>
ghost == <<doc, style, toks, clean, faults, calls, looks, skips>>
lex == <<lexData, lexAt, lexOut>>
vars == <<scanner, loop, ghost, lex>>

(***************************************************************************)
(* Bounds of the model.                                                    *)
(***************************************************************************)
MaxNodes == 4
MaxRegs == 2
MaxSpacedNodes == 2
MaxFaults == 1
MaxStrLen == 6
MaxBlockNodes == 3
MaxUnits == 2

(***************************************************************************)
(* Character codes and constants, FastJson.js:3-18.  A character is a      *)
(* one-character string; a text (String or Buffer) is a sequence of them.  *)
(***************************************************************************)
OPEN_BRACE == "{"
CLOSE_BRACE == "}"
OPEN_BRACKET == "["
CLOSE_BRACKET == "]"
QUOTE == "\""
SPACE == " "
NEW_LINE == "\n"
CARRIAGE_RETURN == "\r"
TAB == "\t"
COLON == ":"
COMMA == ","
BACKSLASH == "\\"
TYPE_ARRAY == 1
TYPE_OBJECT == 2
ROOT_KEY == <<"/">>

\* JavaScript's undefined in a field that otherwise holds an offset.
undefined == -1
\* What charCodeAt / Buffer indexing give outside the text: equal to no character.
NaN == "NaN"
\* The result of a lexer loop that never meets its exit condition.
NoReturn == -2

\* FastJson._get: the code unit at a zero-based offset.
_get(d, index) ==
  IF index >= 0 /\ index < Len(d) THEN d[index + 1] ELSE NaN

\* String.prototype.slice / Buffer.slice for 0 <= start: [start, end).
slice(d, start, end) ==
  LET s == IF start = undefined THEN 0 ELSE start
      e == IF end = undefined \/ end > Len(d) THEN Len(d) ELSE end
  IN  SubSeq(d, s + 1, e)

\* FastJson._toString
_toString(d, start, end) == slice(d, start, end)

Digits == <<"0", "1", "2", "3", "4", "5", "6", "7", "8", "9">>

\* Template literal `${n}` of a non-negative integer: its decimal digits.
RECURSIVE decimal(_)
decimal(n) ==
  IF n < 10 THEN <<Digits[n + 1]>>
  ELSE decimal(n \div 10) \o <<Digits[(n % 10) + 1]>>

(***************************************************************************)
(* The lexers, FastJson.js:219-274.                                        *)
(***************************************************************************)
RECURSIVE parseStringLoop(_, _)
parseStringLoop(d, j) ==
  IF j >= Len(d) THEN NoReturn
  ELSE IF _get(d, j) = QUOTE THEN j
  ELSE IF _get(d, j) = BACKSLASH THEN parseStringLoop(d, j + 2)
  ELSE parseStringLoop(d, j + 1)

\* A faulty variant of _parseString: the backslash case is missing.
RECURSIVE parseStringNoEscape(_, _)
parseStringNoEscape(d, j) ==
  IF j >= Len(d) THEN NoReturn
  ELSE IF _get(d, j) = QUOTE THEN j
  ELSE parseStringNoEscape(d, j + 1)

_parseString_noEscape(d, index) == parseStringNoEscape(d, index + 1)

_parseString(d, index) == parseStringLoop(d, index + 1)

RECURSIVE parsePrimitiveLoop(_, _)
parsePrimitiveLoop(d, j) ==
  IF j >= Len(d) THEN NoReturn
  ELSE IF _get(d, j) \in {CLOSE_BRACKET, CLOSE_BRACE, COMMA,
                          TAB, CARRIAGE_RETURN, NEW_LINE, SPACE} THEN j
  ELSE parsePrimitiveLoop(d, j + 1)

_parsePrimitive(d, index) == parsePrimitiveLoop(d, index)

\* A faulty variant of skipBlockLoop: a quote does not start a string.
RECURSIVE skipBlockLoop_noStrings(_, _, _, _, _)
skipBlockLoop_noStrings(d, j, blockDepth, openChar, closeChar) ==
  IF blockDepth = 0 THEN j - 1
  ELSE IF j >= Len(d) THEN NoReturn
  ELSE IF _get(d, j) = openChar THEN
    skipBlockLoop_noStrings(d, j + 1, blockDepth + 1, openChar, closeChar)
  ELSE IF _get(d, j) = closeChar THEN
    skipBlockLoop_noStrings(d, j + 1, blockDepth - 1, openChar, closeChar)
  ELSE skipBlockLoop_noStrings(d, j + 1, blockDepth, openChar, closeChar)

RECURSIVE skipBlockLoop(_, _, _, _, _)
skipBlockLoop(d, j, blockDepth, openChar, closeChar) ==
  IF blockDepth = 0 THEN j - 1
  ELSE IF j >= Len(d) THEN NoReturn
  ELSE IF _get(d, j) = QUOTE THEN
    LET strEnd == _parseString(d, j)
    IN  IF strEnd = NoReturn THEN NoReturn
        ELSE skipBlockLoop(d, (j + (strEnd - j)) + 1, blockDepth, openChar, closeChar)
  ELSE IF _get(d, j) = openChar THEN
    skipBlockLoop(d, j + 1, blockDepth + 1, openChar, closeChar)
  ELSE IF _get(d, j) = closeChar THEN
    skipBlockLoop(d, j + 1, blockDepth - 1, openChar, closeChar)
  ELSE skipBlockLoop(d, j + 1, blockDepth, openChar, closeChar)

\* A faulty variant of _skipBlock: nested openings are not counted.
_skipBlock_flat(d, index, openChar, closeChar) ==
  skipBlockLoop(d, index + 1, 1, NaN, closeChar)

_skipBlock(d, index, openChar, closeChar) ==
  skipBlockLoop(d, index + 1, 1, openChar, closeChar)

(***************************************************************************)
(* The path trie (EventTree).  A node is named by the sequence of keys     *)
(* that leads to it; the cursor starts above the node of the root key.     *)
(* listeners maps every existing node to the number of listeners on it,    *)
(* the k-th of them being the k-th registered.                             *)
(***************************************************************************)
EventTree(rootKey) == [listeners |-> (<<rootKey>> :> 0), node |-> <<>>]

Prefixes(p) == {SubSeq(p, 1, n) : n \in 1..Len(p)}

EventTree_on(ev, path) ==
  LET full == <<ROOT_KEY>> \o path
      old == ev.listeners
      nodes == DOMAIN old \cup Prefixes(full)
  IN  [ev EXCEPT !.listeners =
        [n \in nodes |->
          (IF n \in DOMAIN old THEN old[n] ELSE 0) + (IF n = full THEN 1 ELSE 0)]]

hasNode(ev, key) == Append(ev.node, key) \in DOMAIN ev.listeners

down(ev, key) == [ev EXCEPT !.node = Append(@, key)]

up(ev) == [ev EXCEPT !.node = SubSeq(@, 1, Len(@) - 1)]

listenerCount(ev) ==
  IF ev.node \in DOMAIN ev.listeners THEN ev.listeners[ev.node] ELSE 0

hasListener(ev) == listenerCount(ev) > 0

reset(ev) == [ev EXCEPT !.node = <<>>]

(***************************************************************************)
(* The scanner, FastJson.js:20-348.  self is the instance:                 *)
(*   [stack, postColon, lastString, skipped, events].                      *)
(* A handler yields [self, ret, calls, looks, skips, exc]: the instance    *)
(* after it, the offset it hands back, the listener invocations, trie      *)
(* look-ups and block skips it made, and how it ended ("none": returned;   *)
(* "listener": a listener threw; "TypeError": a property of undefined was  *)
(* read; "hang": a lexer loop never exits).                                *)
(***************************************************************************)
FastJson ==
  [stack |-> <<>>, postColon |-> FALSE,
   lastString |-> [start |-> undefined, end |-> undefined],
   skipped |-> FALSE, events |-> EventTree(ROOT_KEY)]

\* What a listener may do when invoked.
ListenerActs == {"return", "skip", "throw"}

Result(self, ret, cs, ls, ss, exc) ==
  [self |-> self, ret |-> ret, calls |-> cs, looks |-> ls, skips |-> ss, exc |-> exc]

\* FastJson.skip
skip(self) == [self EXCEPT !.skipped = TRUE]

\* A faulty variant of _skipCleanUp: the trie cursor is not reset.
_skipCleanUp_noReset(self) ==
  [self EXCEPT !.stack = <<>>, !.postColon = FALSE, !.skipped = FALSE]

\* FastJson._skipCleanUp
_skipCleanUp(self) ==
  [self EXCEPT !.stack = <<>>, !.postColon = FALSE, !.skipped = FALSE,
               !.events = reset(@)]

\* EventTree.emit: every listener of the cursor's node, in registration order;
\* a listener that throws ends the loop.  behs[k] is what the k-th listener does.
RECURSIVE emitFrom(_, _, _, _, _, _)
emitFrom(self, value, at, behs, k, acc) ==
  IF k > listenerCount(self.events) THEN [self |-> self, calls |-> acc, exc |-> "none"]
  ELSE
    LET call == [node |-> self.events.node, k |-> k, value |-> value, at |-> at,
                 late |-> self.skipped]
    IN  IF behs[k] = "throw"
        THEN [self |-> self, calls |-> Append(acc, call), exc |-> "listener"]
        ELSE emitFrom(IF behs[k] = "skip" THEN skip(self) ELSE self,
                      value, at, behs, k + 1, Append(acc, call))

emit(self, value, at, behs) == emitFrom(self, value, at, behs, 1, <<>>)

hasFrame(self) == Len(self.stack) > 0

\* FastJson._getFrame, where a frame exists.
_getFrame(self) == self.stack[Len(self.stack)]

\* FastJson._getKeyForPrimitiveObject
_getKeyForPrimitiveObject(self, d) ==
  _toString(d, self.lastString.start, self.lastString.end)

\* FastJson._getKeyForPrimitiveArray
_getKeyForPrimitiveArray(frame) == decimal(frame.index)

\* A faulty variant of _getKey: the empty stack is not told apart.
_getKey_noRoot(self, d) ==
  IF Len(self.stack) > 0 /\ _getFrame(self).type = TYPE_ARRAY
  THEN _getKeyForPrimitiveArray(_getFrame(self))
  ELSE _getKeyForPrimitiveObject(self, d)

\* FastJson._getKey
_getKey(self, d) ==
  IF Len(self.stack) = 0 THEN ROOT_KEY
  ELSE IF _getFrame(self).type = TYPE_ARRAY
       THEN _getKeyForPrimitiveArray(_getFrame(self))
       ELSE _getKeyForPrimitiveObject(self, d)

\* A faulty variant of emitUnderKey: the cursor moves up whether or not emit throws.
emitUnderKey_finally(self, d, start, end, key, behs, at) ==
  LET look == [at |-> at, key |-> key, under |-> self.events.node]
  IN  IF hasNode(self.events, key) THEN
        LET below == [self EXCEPT !.events = down(@, key)]
            e == IF hasListener(below.events)
                 THEN emit(below, slice(d, start, end), at, behs)
                 ELSE [self |-> below, calls |-> <<>>, exc |-> "none"]
        IN  Result([e.self EXCEPT !.events = up(@)], at, e.calls, <<look>>, <<>>, e.exc)
      ELSE Result(self, at, <<>>, <<look>>, <<>>, "none")

\* The two identical branches of _emitPrimitiveOrString (lines 188-196, 199-207).
emitUnderKey(self, d, start, end, key, behs, at) ==
  LET look == [at |-> at, key |-> key, under |-> self.events.node]
  IN  IF hasNode(self.events, key) THEN
        LET below == [self EXCEPT !.events = down(@, key)]
            e == IF hasListener(below.events)
                 THEN emit(below, slice(d, start, end), at, behs)
                 ELSE [self |-> below, calls |-> <<>>, exc |-> "none"]
        IN  IF e.exc # "none"
            THEN Result(e.self, at, e.calls, <<look>>, <<>>, e.exc)
            ELSE Result([e.self EXCEPT !.events = up(@)], at, e.calls, <<look>>, <<>>, "none")
      ELSE Result(self, at, <<>>, <<look>>, <<>>, "none")

\* FastJson._emitPrimitiveOrString
_emitPrimitiveOrString(self, d, start, end, behs, at) ==
  IF self.postColon THEN
    emitUnderKey(self, d, start, end, _getKeyForPrimitiveObject(self, d), behs, at)
  ELSE IF ~hasFrame(self) THEN Result(self, at, <<>>, <<>>, <<>>, "TypeError")
  ELSE IF _getFrame(self).type = TYPE_ARRAY THEN
    emitUnderKey(self, d, start, end, _getKeyForPrimitiveArray(_getFrame(self)), behs, at)
  ELSE Result(self, at, <<>>, <<>>, <<>>, "none")

\* A faulty variant of _onOpenBlock: the first listener of a container is
\* invoked at the opening delimiter, with the text up to the end of the data.
_onOpenBlock_early(self, d, index, type, openChar, closeChar) ==
  LET key == _getKey(self, d)
      look == [at |-> index, key |-> key, under |-> self.events.node]
      below == [self EXCEPT !.events = down(@, key),
                            !.stack = Append(@, [type |-> type, start |-> index,
                                                 key |-> key, index |-> 0]),
                            !.postColon = FALSE]
  IN  IF ~hasNode(self.events, key) THEN
        LET to == _skipBlock(d, index, openChar, closeChar)
        IN  IF to = NoReturn THEN Result(self, index, <<>>, <<look>>, <<>>, "hang")
            ELSE Result(self, to, <<>>, <<look>>, <<[open |-> index, close |-> to]>>, "none")
      ELSE
        Result(below, index,
               IF hasListener(below.events)
               THEN emit(below, slice(d, index, undefined), index,
                         [k \in 1..MaxRegs |-> "return"]).calls
               ELSE <<>>,
               <<look>>, <<>>, "none")

\* FastJson._onOpenBlock
_onOpenBlock(self, d, index, type, openChar, closeChar) ==
  LET key == _getKey(self, d)
      look == [at |-> index, key |-> key, under |-> self.events.node]
  IN  IF ~hasNode(self.events, key) THEN
        LET to == _skipBlock(d, index, openChar, closeChar)
        IN  IF to = NoReturn THEN Result(self, index, <<>>, <<look>>, <<>>, "hang")
            ELSE Result(self, to, <<>>, <<look>>, <<[open |-> index, close |-> to]>>, "none")
      ELSE
        Result([self EXCEPT !.events = down(@, key),
                            !.stack = Append(@, [type |-> type, start |-> index,
                                                 key |-> key, index |-> 0]),
                            !.postColon = FALSE],
               index, <<>>, <<look>>, <<>>, "none")

\* A faulty variant of closeSlice: the closing delimiter is left out.
closeSlice_exclusive(d, frame, index) == slice(d, frame.start, index)

\* The text _onCloseBlock emits (line 135), frame.end being index.
closeSlice(d, frame, index) == slice(d, frame.start, index + 1)

\* A faulty variant of _onCloseBlock: the cursor does not move up.
_onCloseBlock_noUp(self, d, index, behs) ==
  IF ~hasFrame(self) THEN Result(self, index, <<>>, <<>>, <<>>, "TypeError")
  ELSE
    LET frame == _getFrame(self)
        popped == [self EXCEPT !.stack = SubSeq(@, 1, Len(@) - 1)]
        e == IF hasListener(popped.events)
             THEN emit(popped, closeSlice(d, frame, index), index, behs)
             ELSE [self |-> popped, calls |-> <<>>, exc |-> "none"]
    IN  Result(e.self, index, e.calls, <<>>, <<>>, e.exc)

\* FastJson._onCloseBlock
_onCloseBlock(self, d, index, behs) ==
  IF ~hasFrame(self) THEN Result(self, index, <<>>, <<>>, <<>>, "TypeError")
  ELSE
    LET frame == _getFrame(self)
        popped == [self EXCEPT !.stack = SubSeq(@, 1, Len(@) - 1)]
        e == IF hasListener(popped.events)
             THEN emit(popped, closeSlice(d, frame, index), index, behs)
             ELSE [self |-> popped, calls |-> <<>>, exc |-> "none"]
    IN  IF e.exc # "none" THEN Result(e.self, index, e.calls, <<>>, <<>>, e.exc)
        ELSE Result([e.self EXCEPT !.events = up(@)], index, e.calls, <<>>, <<>>, "none")

\* FastJson._onQuote
_onQuote(self, d, index, behs) ==
  LET strStart == index + 1
      strEnd == _parseString(d, index)
  IN  IF strEnd = NoReturn THEN Result(self, index, <<>>, <<>>, <<>>, "hang")
      ELSE
        LET r == _emitPrimitiveOrString(self, d, strStart, strEnd, behs, index)
        IN  IF r.exc # "none" THEN r
            ELSE [r EXCEPT !.self.postColon = FALSE,
                           !.self.lastString = [start |-> strStart, end |-> strEnd],
                           !.ret = index + ((strEnd - strStart) + 1)]

\* FastJson._onComma
_onComma(self, index) ==
  IF ~hasFrame(self) THEN Result(self, index, <<>>, <<>>, <<>>, "TypeError")
  ELSE IF _getFrame(self).type = TYPE_ARRAY
       THEN Result([self EXCEPT !.stack[Len(self.stack)].index = @ + 1],
                   index, <<>>, <<>>, <<>>, "none")
       ELSE Result(self, index, <<>>, <<>>, <<>>, "none")

\* A faulty variant of _onPrimitive: the offset handed back is the one before
\* the primitive.
_onPrimitive_back(self, d, index, behs) ==
  LET primEnd == _parsePrimitive(d, index)
  IN  IF primEnd = NoReturn THEN Result(self, index, <<>>, <<>>, <<>>, "hang")
      ELSE
        LET r == _emitPrimitiveOrString(self, d, index, primEnd, behs, index)
        IN  IF r.exc # "none" THEN r
            ELSE [r EXCEPT !.self.postColon = FALSE, !.ret = index - 1]

\* FastJson._onPrimitive
_onPrimitive(self, d, index, behs) ==
  LET primEnd == _parsePrimitive(d, index)
  IN  IF primEnd = NoReturn THEN Result(self, index, <<>>, <<>>, <<>>, "hang")
      ELSE
        LET r == _emitPrimitiveOrString(self, d, index, primEnd, behs, index)
        IN  IF r.exc # "none" THEN r
            ELSE [r EXCEPT !.self.postColon = FALSE,
                           !.ret = index + (primEnd - index - 1)]

\* The switch of write, lines 48-71: one case per character class.
switch(self, d, index, behs) ==
  LET ch == _get(d, index)
  IN  CASE ch = OPEN_BRACE ->
             _onOpenBlock(self, d, index, TYPE_OBJECT, OPEN_BRACE, CLOSE_BRACE)
        [] ch = OPEN_BRACKET ->
             _onOpenBlock(self, d, index, TYPE_ARRAY, OPEN_BRACKET, CLOSE_BRACKET)
        [] ch \in {CLOSE_BRACE, CLOSE_BRACKET} -> _onCloseBlock(self, d, index, behs)
        [] ch = QUOTE -> _onQuote(self, d, index, behs)
        [] ch \in {TAB, CARRIAGE_RETURN, NEW_LINE, SPACE} ->
             Result(self, index, <<>>, <<>>, <<>>, "none")
        [] ch = COLON ->
             Result([self EXCEPT !.postColon = TRUE], index, <<>>, <<>>, <<>>, "none")
        [] ch = COMMA -> _onComma(self, index)
        [] OTHER -> _onPrimitive(self, d, index, behs)

\* The condition of write's for loop, line 47.
looping(self, d, index) == index < Len(d) /\ ~self.skipped

\* A whole write call from offset index on, every listener returning: the
\* invocations made, how the call ended and the instance it leaves.
RECURSIVE write(_, _, _, _)
write(self, d, index, acc) ==
  IF ~looping(self, d, index)
  THEN [calls |-> acc, exc |-> "none",
        self |-> IF self.skipped THEN _skipCleanUp(self) ELSE self]
  ELSE LET r == switch(self, d, index, [k \in 1..MaxRegs |-> "return"])
       IN  IF r.exc # "none"
           THEN [calls |-> acc \o r.calls, exc |-> r.exc, self |-> r.self]
           ELSE write(r.self, d, r.ret + 1, acc \o r.calls)

(***************************************************************************)
(* Documents.  A JSON value is a tree [k, t, c]: k its kind, t the raw     *)
(* text of a scalar, c the members of a container, each [key, v] (key is   *)
(* empty for an array element).  The text written is the serialisation of  *)
(* a tree, so every document is well formed by construction and the place  *)
(* of every value in the text is known.                                    *)
(***************************************************************************)
Keys == {<<"a">>, <<"b">>}
Scalars == {[k |-> "prim", t |-> <<"1">>, c |-> <<>>],
            [k |-> "str", t |-> <<"a">>, c |-> <<>>]}

\* Sequences of n distinct keys.
KeySeqs(n) == {ks \in [1..n -> Keys] : \A x, y \in 1..n : ks[x] = ks[y] => x = y}

RECURSIVE Trees(_), Forests(_)
\* The values of exactly n nodes.
Trees(n) ==
  (IF n = 1 THEN Scalars ELSE {})
  \cup {[k |-> "arr", t |-> <<>>,
         c |-> [x \in 1..Len(f) |-> [key |-> <<>>, v |-> f[x]]]] : f \in Forests(n - 1)}
  \cup UNION {{[k |-> "obj", t |-> <<>>,
                c |-> [x \in 1..Len(f) |-> [key |-> ks[x], v |-> f[x]]]] :
               ks \in KeySeqs(Len(f))} : f \in Forests(n - 1)}
\* The sequences of values of n nodes in all.
Forests(n) ==
  IF n = 0 THEN {<<>>}
  ELSE UNION {UNION {{<<t>> \o rest : rest \in Forests(n - m)} : t \in Trees(m)} :
              m \in 1..n}

Docs == UNION {Trees(n) : n \in 1..MaxNodes}

Sp(st) == IF st = "spaced" THEN <<SPACE>> ELSE <<>>

RECURSIVE Ser(_, _), SerItems(_, _, _, _)
\* The text of a value.
Ser(t, st) ==
  CASE t.k = "prim" -> t.t
    [] t.k = "str" -> <<QUOTE>> \o t.t \o <<QUOTE>>
    [] t.k = "arr" -> <<OPEN_BRACKET>> \o SerItems(t.c, FALSE, st, 1)
                      \o (IF Len(t.c) > 0 THEN Sp(st) ELSE <<>>) \o <<CLOSE_BRACKET>>
    [] t.k = "obj" -> <<OPEN_BRACE>> \o SerItems(t.c, TRUE, st, 1)
                      \o (IF Len(t.c) > 0 THEN Sp(st) ELSE <<>>) \o <<CLOSE_BRACE>>
SerItems(c, isObj, st, n) ==
  IF n > Len(c) THEN <<>>
  ELSE (IF n > 1 THEN <<COMMA>> \o Sp(st) ELSE <<>>)
       \o (IF isObj THEN <<QUOTE>> \o c[n].key \o <<QUOTE, COLON>> \o Sp(st) ELSE <<>>)
       \o Ser(c[n].v, st) \o SerItems(c, isObj, st, n + 1)

\* The text of a document: the value, followed by white space in the spaced style.
Text(t, st) == Ser(t, st) \o Sp(st)

\* The tokens of a document: every value and every object key, with its path
\* from the top-level value, its first and last offset, the text a listener
\* is to receive for it, the kind of its parent and its position in it.
RECURSIVE Layout(_, _, _, _, _, _), LayoutItems(_, _, _, _, _, _)
Layout(t, st, path, off, parent, pos) ==
  LET txt == Ser(t, st)
      own == [path |-> path, kind |-> t.k, start |-> off, end |-> off + Len(txt) - 1,
              text |-> IF t.k = "str" THEN t.t ELSE txt, parent |-> parent, pos |-> pos]
  IN  {own} \cup (IF t.k \in {"arr", "obj"}
                  THEN LayoutItems(t.c, t.k, st, path, off + 1, 1) ELSE {})
LayoutItems(c, pk, st, path, off, n) ==
  IF n > Len(c) THEN {}
  ELSE
    LET keyAt == off + (IF n > 1 THEN 1 + Len(Sp(st)) ELSE 0)
        valAt == keyAt + (IF pk = "obj" THEN Len(c[n].key) + 3 + Len(Sp(st)) ELSE 0)
        seg == IF pk = "obj" THEN c[n].key ELSE <<Digits[n]>>
        keyTok == [path |-> Append(path, seg), kind |-> "key", start |-> keyAt,
                   end |-> keyAt + Len(c[n].key) + 1, text |-> c[n].key,
                   parent |-> pk, pos |-> n - 1]
    IN  (IF pk = "obj" THEN {keyTok} ELSE {})
        \cup Layout(c[n].v, st, Append(path, seg), valAt, pk, n - 1)
        \cup LayoutItems(c, pk, st, path, valAt + Len(Ser(c[n].v, st)), n + 1)

Tokens(t, st) == Layout(t, st, <<>>, 0, "none", 0)

\* The paths a caller registers.
RegPaths == {<<>>, <<<<"a">>>>, <<<<"b">>>>, <<<<"0">>>>, <<<<"1">>>>,
             <<<<"a">>, <<"b">>>>, <<<<"0">>, <<"a">>>>}

(***************************************************************************)
(* The state machine.  pc is "idle" between calls, "loop" at the head of   *)
(* write's for loop, "hung" inside a lexer loop that never exits.  outcome *)
(* tells how the last write ended.  The other variables record the        *)
(* history the properties speak about: doc, style and toks the document    *)
(* being written and its tokens, clean whether the current write started   *)
(* with an empty stack and the cursor at its start, faults the number of   *)
(* listener throws since the last clean-up, and calls, looks and skips the listener         *)
(* invocations, trie look-ups and block skips of the current write.        *)
(***************************************************************************)
Self ==
  [stack |-> _stack, postColon |-> _postColon, lastString |-> _lastString,
   skipped |-> _skipped, events |-> _events]

Become(self) ==
  /\ _stack' = self.stack
  /\ _postColon' = self.postColon
  /\ _lastString' = self.lastString
  /\ _skipped' = self.skipped
  /\ _events' = self.events

NoDoc == [k |-> "none", t |-> <<>>, c |-> <<>>]

\* new FastJson()
Init ==
  /\ _stack = FastJson.stack /\ _postColon = FastJson.postColon
  /\ _lastString = FastJson.lastString /\ _skipped = FastJson.skipped
  /\ _events = FastJson.events
  /\ data = <<>> /\ i = 0 /\ pc = "idle" /\ outcome = "none"
  /\ doc = NoDoc /\ style = "compact" /\ toks = {} /\ clean = TRUE /\ faults = 0
  /\ calls = <<>> /\ looks = <<>> /\ skips = <<>>
  /\ lexData = <<>> /\ lexAt = 0 /\ lexOut = undefined

RECURSIVE Sum(_, _)
Sum(f, S) == IF S = {} THEN 0 ELSE LET x == CHOOSE y \in S : TRUE IN f[x] + Sum(f, S \ {x})

Registered(ev) == Sum(ev.listeners, DOMAIN ev.listeners)

\* What the listeners of one emit do, by position in the node's list.
MostListeners(ev) ==
  CHOOSE n \in 0..Registered(ev) :
    /\ \A x \in DOMAIN ev.listeners : ev.listeners[x] <= n
    /\ \E x \in DOMAIN ev.listeners : ev.listeners[x] = n

Behaviours == [1..MostListeners(_events) -> ListenerActs]

\* FastJson.on, before the first write.
On ==
  /\ pc = "idle" /\ doc = NoDoc /\ Registered(_events) < MaxRegs
  /\ \E path \in RegPaths : _events' = EventTree_on(_events, path)
  /\ UNCHANGED <<_stack, _postColon, _lastString, _skipped, loop, ghost, lex>>

\* FastJson.skip called by the owner between two writes.
Skip ==
  /\ pc = "idle" /\ ~_skipped
  /\ Become(skip(Self))
  /\ UNCHANGED <<loop, ghost, lex>>

\* The documents a first write draws from; a later write takes the same one.
Inputs ==
  IF doc = NoDoc
  THEN {<<t, "compact">> : t \in Docs}
       \cup {<<t, "spaced">> : t \in UNION {Trees(n) : n \in 1..MaxSpacedNodes}}
  ELSE {<<doc, style>>}

\* A call of write: the loop is entered at offset 0.
Write ==
  /\ pc = "idle"
  /\ \E in \in Inputs :
       /\ data' = Text(in[1], in[2])
       /\ doc' = in[1] /\ style' = in[2]
       /\ toks' = Tokens(in[1], in[2])
  /\ i' = 0 /\ pc' = "loop" /\ outcome' = "none"
  /\ clean' = (_stack = <<>> /\ _events.node = <<>>)
  /\ calls' = <<>> /\ looks' = <<>> /\ skips' = <<>>
  /\ UNCHANGED <<scanner, faults, lex>>

\* A faulty variant of At: the loop goes on after skip().
At_ignoringSkip(chars) ==
  /\ pc = "loop" /\ i < Len(data)
  /\ _get(data, i) \in chars

\* The loop condition of write holds and the character at i is one of chars.
At(chars) ==
  /\ pc = "loop" /\ looping(Self, data, i)
  /\ _get(data, i) \in chars

\* The end of one case of the switch: the handler's effect, then i++; a throw
\* leaves write, a hang never does.  A listener throws only while fewer than
\* MaxFaults throws are outstanding.
Handled(r) ==
  /\ r.exc = "listener" => faults < MaxFaults
  /\ Become(r.self)
  /\ calls' = calls \o r.calls /\ looks' = looks \o r.looks /\ skips' = skips \o r.skips
  /\ data' = data
  /\ CASE r.exc = "none" -> i' = r.ret + 1 /\ pc' = "loop" /\ outcome' = outcome
       [] r.exc = "hang" -> i' = i /\ pc' = "hung" /\ outcome' = "hang"
       [] OTHER -> i' = i /\ pc' = "idle" /\ outcome' = r.exc
  /\ faults' = IF r.exc = "listener" THEN faults + 1 ELSE faults
  /\ UNCHANGED <<doc, style, toks, clean, lex>>

Special == {OPEN_BRACE, OPEN_BRACKET, CLOSE_BRACE, CLOSE_BRACKET, QUOTE,
            TAB, CARRIAGE_RETURN, NEW_LINE, SPACE, COLON, COMMA}

OpenBrace == At({OPEN_BRACE}) /\ Handled(switch(Self, data, i, <<>>))

OpenBracket == At({OPEN_BRACKET}) /\ Handled(switch(Self, data, i, <<>>))

CloseBlock ==
  /\ At({CLOSE_BRACE, CLOSE_BRACKET})
  /\ \E behs \in Behaviours : Handled(switch(Self, data, i, behs))

Quote == At({QUOTE}) /\ \E behs \in Behaviours : Handled(switch(Self, data, i, behs))

Whitespace ==
  At({TAB, CARRIAGE_RETURN, NEW_LINE, SPACE}) /\ Handled(switch(Self, data, i, <<>>))

Colon == At({COLON}) /\ Handled(switch(Self, data, i, <<>>))

Comma == At({COMMA}) /\ Handled(switch(Self, data, i, <<>>))

Primitive ==
  /\ At({_get(data, i)} \ Special)
  /\ \E behs \in Behaviours : Handled(switch(Self, data, i, behs))

\* The loop condition of write fails: lines 74-76, and write returns.
WriteReturn ==
  /\ pc = "loop" /\ ~looping(Self, data, i)
  /\ Become(IF _skipped THEN _skipCleanUp(Self) ELSE Self)
  /\ pc' = "idle" /\ outcome' = IF _skipped THEN "cancelled" ELSE "returned"
  /\ faults' = IF _skipped THEN 0 ELSE faults
  /\ UNCHANGED <<data, i, doc, style, toks, clean, calls, looks, skips, lex>>

Next ==
  \/ On
  \/ Skip
  \/ Write
  \/ OpenBrace
  \/ OpenBracket
  \/ CloseBlock
  \/ Quote
  \/ Whitespace
  \/ Colon
  \/ Comma
  \/ Primitive
  \/ WriteReturn

Spec == Init /\ [][Next]_vars

TypeOK ==
  /\ pc \in {"idle", "loop", "hung"}
  /\ _postColon \in BOOLEAN /\ _skipped \in BOOLEAN
  /\ i \in 0..Len(data)

(***************************************************************************)
(* What the properties speak about.                                        *)
(***************************************************************************)
Last(q) == q[Len(q)]
Front(q) == SubSeq(q, 1, Len(q) - 1)

\* The values of the document being written (object keys left out).
DocValues == {tok \in toks : tok.kind # "key"}
Containers == {tok \in toks : tok.kind \in {"arr", "obj"}}

\* The trie node of a path counted from the top-level value.
NodeOf(path) == <<ROOT_KEY>> \o path

ListenersOn(node) ==
  IF node \in DOMAIN _events.listeners THEN _events.listeners[node] ELSE 0

\* The invocations of the k-th listener of a node in the current write.
CallsTo(node, k) == {n \in 1..Len(calls) : calls[n].node = node /\ calls[n].k = k}

\* A write that started on a clean instance has returned, no listener having
\* thrown or called skip().
Completed == pc = "idle" /\ outcome = "returned" /\ clean

\* The token a listener invocation was made for: a container is delivered at
\* its closing delimiter, a scalar at its first character.
TokensOf(call) ==
  {tok \in toks : \/ tok.kind \in {"arr", "obj"} /\ tok.end = call.at
                  \/ tok.kind \in {"str", "key", "prim"} /\ tok.start = call.at}

\* The container tokens whose opening delimiter was looked up under a key that
\* has no node: the containers the scan skipped.
SkippedContainers ==
  {tok \in Containers :
     \E n \in 1..Len(looks) :
       /\ looks[n].at = tok.start
       /\ Append(looks[n].under, looks[n].key) \notin DOMAIN _events.listeners}

\* C1: when a write on a clean instance returns without skip() or a listener
\* fault, every listener of every registered path that names a value of the
\* document has been invoked exactly once per occurrence of that value.
C1_OncePerOccurrence ==
  Completed =>
    \A v \in DocValues : \A k \in 1..ListenersOn(NodeOf(v.path)) :
      Cardinality(CallsTo(NodeOf(v.path), k))
        = Cardinality({w \in DocValues : w.path = v.path})

\* C2: every invocation delivers the raw slice of its token: a container from
\* its opening to its matching closing delimiter, a string without its quotes,
\* a primitive up to its terminating character.
C2_RawSlice ==
  \A n \in 1..Len(calls) :
    \E tok \in TokensOf(calls[n]) :
      calls[n].value =
        CASE tok.kind \in {"arr", "obj"} -> SubSeq(data, tok.start + 1, tok.end + 1)
          [] tok.kind \in {"str", "key"} -> SubSeq(data, tok.start + 2, tok.end)
          [] tok.kind = "prim" -> SubSeq(data, tok.start + 1, tok.end + 1)

C2_Witness ==
  /\ Completed
  /\ \E n, m \in 1..Len(calls) :
       /\ \E tok \in TokensOf(calls[n]) : tok.kind \in {"arr", "obj"} /\ tok.end > tok.start + 1
       /\ \E tok \in TokensOf(calls[m]) : tok.kind = "str"

\* C3: the key looked up for the k-th element of an array is the decimal
\* string of k.
C3_ElementKey ==
  \A n \in 1..Len(looks) : \A v \in DocValues :
    (v.parent = "arr" /\ v.start = looks[n].at) => looks[n].key = decimal(v.pos)

\* C4: no listener is invoked between the opening and the matching closing
\* delimiter of a container whose entry key has no node.
C4_SkippedSilent ==
  \A c \in SkippedContainers : \A n \in 1..Len(calls) :
    ~(c.start <= calls[n].at /\ calls[n].at <= c.end)

\* A skipped container holds a value whose key carries a listener elsewhere.
C4_Witness ==
  /\ Completed
  /\ \E c \in SkippedContainers : \E v \in DocValues :
       /\ c.start < v.start /\ v.end < c.end
       /\ \E node \in DOMAIN _events.listeners :
            /\ _events.listeners[node] > 0 /\ Len(node) > 1
            /\ Last(node) = Last(v.path)
            /\ Cardinality(CallsTo(node, 1)) = 1

\* C5 as claimed: no listener is invoked once skip() has been called.
C5_NothingAfterSkip == \A n \in 1..Len(calls) : ~calls[n].late

\* C5: a listener invoked after skip() was called belongs to the emit in
\* which skip() was called: no later step of the loop invokes a listener.
C5_NoLaterStep ==
  \A n \in 1..Len(calls) :
    calls[n].late =>
      /\ n > 1
      /\ calls[n - 1].at = calls[n].at
      /\ calls[n - 1].node = calls[n].node
      /\ calls[n - 1].k + 1 = calls[n].k

\* A listener of a value cancelled the write and the listener of the root
\* container, still open then, was not invoked.
C5_Witness ==
  /\ pc = "idle" /\ outcome = "cancelled" /\ clean
  /\ calls # <<>>
  /\ ListenersOn(<<ROOT_KEY>>) > 0
  /\ \A n \in 1..Len(calls) : calls[n].node # <<ROOT_KEY>>

\* The instance as constructed, with the registrations made so far.
Fresh == [FastJson EXCEPT !.events.listeners = _events.listeners]

\* C6: when a cancelled write returns, the stack is empty, the object-value
\* flag and the cancellation flag are false and the cursor is at its start,
\* and a write of the document then makes the invocations a fresh instance
\* makes.
C6_CleanAfterCancel ==
  [][(pc = "loop" /\ outcome' = "cancelled") =>
       /\ pc' = "idle"
       /\ _stack' = <<>> /\ ~_postColon' /\ ~_skipped' /\ _events'.node = <<>>
       /\ write(Self', data', 0, <<>>).calls = write(Fresh, data, 0, <<>>).calls
       /\ write(Self', data', 0, <<>>).exc = write(Fresh, data, 0, <<>>).exc]_vars

\* A write was cancelled by a listener two containers deep, and the document
\* has values that listeners are invoked for.
C6_Witness ==
  /\ pc = "idle" /\ outcome = "cancelled" /\ ~_skipped
  /\ calls # <<>> /\ Len(Last(calls).node) >= 3
  /\ Len(write(Self, data, 0, <<>>).calls) >= 1

\* C7: a write of a document whose top-level value is a container invokes
\* every root listener once, at the top-level closing delimiter, with the text
\* from the opening to the closing delimiter.
C7_RootOnce ==
  (Completed /\ doc.k \in {"arr", "obj"}) =>
    \A k \in 1..ListenersOn(<<ROOT_KEY>>) :
      \E n \in 1..Len(calls) :
        /\ CallsTo(<<ROOT_KEY>>, k) = {n}
        /\ calls[n].at = Len(Ser(doc, style)) - 1
        /\ _get(data, calls[n].at) \in {CLOSE_BRACE, CLOSE_BRACKET}
        /\ calls[n].value = Ser(doc, style)
        /\ \A m \in 1..Len(calls) : calls[m].at <= calls[n].at

C7_Witness ==
  /\ Completed /\ doc.k \in {"arr", "obj"} /\ style = "spaced"
  /\ ListenersOn(<<ROOT_KEY>>) = 1
  /\ Len(calls) = 2 /\ Last(calls).node = <<ROOT_KEY>>

\* C8: a write of a top-level scalar returns, every root listener having
\* been invoked once with the text of the scalar.
C8_TopLevelScalar ==
  (clean /\ doc.k \in {"prim", "str"} /\ ListenersOn(<<ROOT_KEY>>) > 0) =>
    /\ outcome \notin {"TypeError", "hang"}
    /\ (pc = "idle" /\ outcome = "returned") =>
         \A k \in 1..ListenersOn(<<ROOT_KEY>>) :
           \E n \in 1..Len(calls) :
             CallsTo(<<ROOT_KEY>>, k) = {n} /\ calls[n].value = doc.t

\* C10: a listener's throw ends write at the offset being handled: the
\* invocations made are those of this emit, the cursor stays on the node of
\* the listener that threw, the stack is the one the handler had at the emit
\* and the object-value flag and the string span are not touched; a later
\* write starts from the instance as it was left.
C10_FaultLeavesMidScan ==
  [][/\ (pc = "loop" /\ outcome' = "listener") =>
          /\ pc' = "idle" /\ i' = i
          /\ Len(calls') > Len(calls) /\ SubSeq(calls', 1, Len(calls)) = calls
          /\ \A n \in (Len(calls) + 1)..Len(calls') : calls'[n].at = i
          /\ _events'.node = Last(calls').node /\ _events'.node # <<>>
          /\ _stack' = IF _get(data, i) \in {CLOSE_BRACE, CLOSE_BRACKET}
                       THEN Front(_stack) ELSE _stack
          /\ _postColon' = _postColon /\ _lastString' = _lastString
     /\ (pc = "idle" /\ pc' = "loop") => (Self' = Self /\ i' = 0)]_vars

\* A write that started on the instance a listener fault left is under way.
C10_Witness ==
  /\ pc = "loop" /\ ~clean /\ faults > 0 /\ i > 0
  /\ _stack # <<>> /\ Len(_events.node) > Len(_stack)

\* C11: when the owner calls skip() after a write that a listener fault ended,
\* the next write starts with an empty stack and the cursor at its start,
\* enters its loop, and makes the invocations a fresh instance with the same
\* registrations makes.
C11_SkipBeforeWrite ==
  [][(pc = "idle" /\ outcome = "listener" /\ ~_skipped /\ _skipped') =>
       /\ _stack' = <<>> /\ _events'.node = <<>>
       /\ looping(Self', data, 0)
       /\ write(Self', data, 0, <<>>).calls = write(Fresh, data, 0, <<>>).calls]_vars

\* C12: in a write on a clean instance the object-value flag is false after
\* every step of the loop that handles a string, a primitive, an opening
\* delimiter (its container entered or skipped), a closing delimiter or a
\* comma; it is true only after a colon and the white space that follows it.
C12_FlagOnlyAfterColon ==
  [][(clean /\ pc = "loop" /\ pc' = "loop" /\ _postColon') =>
       \/ _get(data, i) = COLON
       \/ _get(data, i) \in {TAB, CARRIAGE_RETURN, NEW_LINE, SPACE} /\ _postColon]_vars

\* The containers open at the head of the loop: the opening delimiter is
\* behind the scan offset, the matching closing delimiter is not.
OpenContainers == {c \in Containers : c.start < i /\ i <= c.end}

\* A container lies in a block the scan skipped.
InSkippedBlock(c) ==
  \E n \in 1..Len(skips) : skips[n].open <= c.start /\ c.end <= skips[n].close

\* C13: at the head of the loop of a write on a clean instance the stack has
\* one frame for every open container that was not skipped, in the order of
\* their opening, and the cursor is as many nodes deep as the stack; a step
\* that skips a container leaves the stack and the cursor as they are.
C13_StackMirrorsNesting ==
  /\ []((pc = "loop" /\ clean) =>
          /\ Len(_stack) = Cardinality({c \in OpenContainers : ~InSkippedBlock(c)})
          /\ Len(_events.node) = Len(_stack)
          /\ \A k \in 1..Len(_stack) :
               \E c \in OpenContainers :
                 /\ c.start = _stack[k].start /\ ~InSkippedBlock(c)
                 /\ Len(c.path) = k - 1)
  /\ [][(pc = "loop" /\ clean /\ Len(skips') > Len(skips)) =>
          /\ _stack' = _stack /\ _events'.node = _events.node
          /\ i' = Last(skips').close + 1]_vars

\* Two containers are open and entered, and a third, inside them, was skipped.
C13_Witness ==
  /\ pc = "loop" /\ clean /\ Len(_stack) = 2
  /\ \E n \in 1..Len(skips) : skips[n].open > _stack[2].start /\ skips[n].close < i

\* The containers whose node exists and carries no listener.
Waypoints ==
  {c \in Containers : NodeOf(c.path) \in DOMAIN _events.listeners
                        /\ ListenersOn(NodeOf(c.path)) = 0}

\* The offset at which the listeners of a value are invoked.
CompletedAt(v) == IF v.kind \in {"arr", "obj"} THEN v.end ELSE v.start

\* C15: a container whose node exists and carries no listener is entered: at
\* its opening delimiter a frame is pushed and the cursor moves down to its
\* node, at its closing delimiter the frame is popped and the cursor moves up
\* without an invocation, and when the write has returned every listener of
\* a value inside it has been invoked for that value.
C15_WaypointEntered ==
  /\ [](Completed =>
          \A c \in Waypoints :
            /\ ~InSkippedBlock(c)
            /\ \A n \in 1..Len(calls) : calls[n].at # c.end
            /\ \A v \in DocValues :
                 (c.start < v.start /\ v.end < c.end) =>
                   \A k \in 1..ListenersOn(NodeOf(v.path)) :
                     \E n \in CallsTo(NodeOf(v.path), k) : calls[n].at = CompletedAt(v))
  /\ [][(clean /\ pc = "loop" /\ looping(Self, data, i)) =>
          \A c \in Waypoints :
            /\ c.start = i =>
                 /\ pc' = "loop" /\ i' = i + 1
                 /\ Front(_stack') = _stack /\ Last(_stack').start = i
                 /\ _events'.node = NodeOf(c.path)
            /\ c.end = i =>
                 /\ pc' = "loop" /\ i' = i + 1
                 /\ _stack' = Front(_stack) /\ Last(_stack).start = c.start
                 /\ _events.node = NodeOf(c.path)
                 /\ _events'.node = Front(_events.node)
                 /\ calls' = calls]_vars

\* C16: the invocations of a write are made in the order of the offsets at
\* which their values are completed, none beyond the offset being handled: a
\* scalar's at the scalar, a container's at its closing delimiter, so after
\* every invocation for a value inside it and before every invocation for a
\* value behind it; an invocation of a root listener for a container is at
\* the top-level closing delimiter and only root listeners follow it.
C16_DocumentOrder ==
  \A n \in 1..Len(calls) :
    /\ calls[n].at <= i
    /\ \A m \in 1..(n - 1) :
         \/ calls[m].at < calls[n].at
         \/ /\ calls[m].at = calls[n].at /\ calls[m].node = calls[n].node
            /\ calls[m].k < calls[n].k
    /\ clean =>
         /\ TokensOf(calls[n]) # {}
         /\ \A c \in TokensOf(calls[n]) : \A m \in 1..Len(calls) :
              c.kind \in {"arr", "obj"} =>
                /\ (c.start < calls[m].at /\ calls[m].at < c.end) => m < n
                /\ calls[m].at > c.end => m > n
         /\ (doc.k \in {"arr", "obj"} /\ calls[n].node = <<ROOT_KEY>>) =>
              /\ calls[n].at = Len(Ser(doc, style)) - 1
              /\ \A m \in (n + 1)..Len(calls) : calls[m].node = <<ROOT_KEY>>

\* A scalar two containers deep, then the container around it have been
\* delivered, and the scan went on to a value behind that container.
C16_Witness ==
  /\ Completed /\ Len(calls) = 2
  /\ Len(calls[1].node) = 3 /\ Len(calls[2].node) = 2
  /\ \E c \in TokensOf(calls[2]) :
       /\ c.kind \in {"arr", "obj"}
       /\ c.start < calls[1].at /\ calls[1].at < c.end
       /\ \E v \in DocValues : v.start > c.end
  /\ \E v \in TokensOf(calls[1]) : v.kind \in {"prim", "str"}

\* C17: a write of a document whose top-level value is a container never
\* stays in a lexer loop; every iteration of its loop that goes on leaves the
\* scan offset larger than it was and within the text, and the offset at the
\* head of the loop is never inside a block that was skipped.  The scan
\* offset being bounded by the length of the text, write returns or throws.
C17_ScanAdvances ==
  /\ [](doc.k \in {"arr", "obj"} =>
          /\ pc # "hung" /\ outcome # "hang"
          /\ i <= Len(data)
          /\ \A n \in 1..Len(skips) : ~(skips[n].open < i /\ i <= skips[n].close))
  /\ [][(doc.k \in {"arr", "obj"} /\ pc = "loop") =>
          \/ pc' = "loop" /\ i < i' /\ i' <= Len(data)
          \/ pc' = "idle" /\ i' = i]_vars

\* A write of a document with a string, a primitive and a skipped block that
\* is not empty has returned at the end of the text.
C17_Witness ==
  /\ Completed /\ doc.k \in {"arr", "obj"} /\ i = Len(data)
  /\ \E n \in 1..Len(skips) : skips[n].close > skips[n].open + 1
  /\ \E s, q \in DocValues : s.kind = "str" /\ q.kind = "prim"

\* C18: every invocation of a write on a clean instance is made for a value
\* of the document, not for an object key, whose path is the path of the
\* listener invoked; and when no value of the document is at a path with a
\* listener, no listener is invoked and the write ends in no fault.
C18_OwnPathOnly ==
  clean =>
    /\ \A n \in 1..Len(calls) :
         \E tok \in TokensOf(calls[n]) :
           tok.kind # "key" /\ NodeOf(tok.path) = calls[n].node
    /\ (\A v \in DocValues : ListenersOn(NodeOf(v.path)) = 0) =>
         /\ calls = <<>>
         /\ outcome \notin {"listener", "TypeError", "hang"}

\* C19: once a cancelled write has returned, and so when the next write
\* starts, the string span holds no offsets: it is as the constructor left it.
C19_SpanCleared ==
  (pc = "idle" /\ outcome = "cancelled") => _lastString = FastJson.lastString

(***************************************************************************)
(* The lexers on their own: _parseString called at a quote of a text of    *)
(* quotes, backslashes and letters, and _skipBlock called at the opening   *)
(* delimiter of a container of a document whose strings and keys hold      *)
(* delimiters and escapes.                                                 *)
(***************************************************************************)
LexChars == {QUOTE, BACKSLASH, "a"}
LexTexts == UNION {[1..n -> LexChars] : n \in 1..MaxStrLen}

\* What a string is made of here: a delimiter, an escaped quote, an escaped
\* backslash or a letter.
StrUnits == {<<OPEN_BRACE>>, <<CLOSE_BRACE>>, <<OPEN_BRACKET>>, <<CLOSE_BRACKET>>,
             <<BACKSLASH, QUOTE>>, <<BACKSLASH, BACKSLASH>>, <<"a">>}

RECURSIVE StrBodies(_)
StrBodies(n) ==
  IF n = 1 THEN StrUnits
  ELSE StrBodies(n - 1) \cup {b \o u : b \in StrBodies(n - 1), u \in StrUnits}

\* The value t with body for the text of every string and for every key a.
RECURSIVE WithStrings(_, _)
WithStrings(t, body) ==
  [k |-> t.k,
   t |-> IF t.k = "str" THEN body ELSE t.t,
   c |-> [x \in 1..Len(t.c) |->
           [key |-> IF t.c[x].key = <<"a">> THEN body ELSE t.c[x].key,
            v |-> WithStrings(t.c[x].v, body)]]]

\* The documents _skipBlock is called on.
BlockDocs ==
  {WithStrings(t, body) :
     t \in {u \in UNION {Trees(n) : n \in 1..MaxBlockNodes} : u.k \in {"arr", "obj"}},
     body \in StrBodies(MaxUnits)}

InitLex ==
  /\ _stack = FastJson.stack /\ _postColon = FastJson.postColon
  /\ _lastString = FastJson.lastString /\ _skipped = FastJson.skipped
  /\ _events = FastJson.events
  /\ data = <<>> /\ i = 0 /\ pc = "lex" /\ outcome = "none"
  /\ style = "compact" /\ clean = TRUE /\ faults = 0
  /\ calls = <<>> /\ looks = <<>> /\ skips = <<>>
  /\ \/ doc = NoDoc /\ toks = {} /\ lexData \in LexTexts
     \/ /\ doc \in BlockDocs
        /\ toks = Tokens(doc, style)
        /\ lexData = Text(doc, style)
  /\ lexAt = 0 /\ lexOut = undefined

ParseString ==
  /\ pc = "lex"
  /\ \E q \in 0..(Len(lexData) - 1) :
       /\ _get(lexData, q) = QUOTE
       /\ lexAt' = q
       /\ lexOut' = _parseString(lexData, q)
  /\ pc' = "lexed"
  /\ UNCHANGED <<scanner, data, i, outcome, ghost, lexData>>

\* _skipBlock called by _onOpenBlock (line 105) at the opening delimiter of a
\* container of the text, with the delimiters write passes for the character
\* there (lines 49-54); write's loop then goes on at the offset after the one
\* handed back.
SkipBlock ==
  /\ pc = "lex"
  /\ \E c \in Containers :
       LET ret == IF _get(lexData, c.start) = OPEN_BRACE
                  THEN _skipBlock(lexData, c.start, OPEN_BRACE, CLOSE_BRACE)
                  ELSE _skipBlock(lexData, c.start, OPEN_BRACKET, CLOSE_BRACKET)
       IN  /\ lexAt' = c.start
           /\ lexOut' = ret
           /\ i' = IF ret = NoReturn THEN i ELSE ret + 1
  /\ pc' = "skipped"
  /\ UNCHANGED <<scanner, data, outcome, ghost, lexData>>

NextLex == ParseString \/ SkipBlock

SpecLex == InitLex /\ [][NextLex]_vars

\* The character at j is escaped: the character before it, after the opening
\* quote at q, is a backslash that is not escaped itself.
RECURSIVE Escaped(_, _, _)
Escaped(d, q, j) ==
  /\ j - 1 > q
  /\ _get(d, j - 1) = BACKSLASH
  /\ ~Escaped(d, q, j - 1)

UnescapedQuotes(d, q) ==
  {j \in (q + 1)..(Len(d) - 1) : _get(d, j) = QUOTE /\ ~Escaped(d, q, j)}

\* C9: for a terminated string opened at q, _parseString returns the offset
\* of the first quote after q that is not escaped.
C9_ClosingQuote ==
  (pc = "lexed" /\ UnescapedQuotes(lexData, lexAt) # {}) =>
    /\ lexOut \in UnescapedQuotes(lexData, lexAt)
    /\ \A j \in UnescapedQuotes(lexData, lexAt) : lexOut <= j

\* The string holds an escaped quote and ends after an escaped backslash.
C9_Witness ==
  /\ pc = "lexed" /\ lexOut >= 4
  /\ _get(lexData, lexOut - 1) = BACKSLASH /\ _get(lexData, lexOut - 2) = BACKSLASH
  /\ \E j \in (lexAt + 1)..(lexOut - 1) :
       _get(lexData, j) = QUOTE /\ Escaped(lexData, lexAt, j)

\* The container of the text whose opening delimiter is where the lexer was
\* called.
BlockAt == {c \in Containers : c.start = lexAt}

\* C14: called at the opening delimiter of a container, _skipBlock hands back
\* the offset of the matching closing delimiter, whatever containers and
\* strings lie inside, and the loop of write goes on at the offset after it.
C14_MatchingClose ==
  pc = "skipped" =>
    \A c \in BlockAt :
      /\ lexOut = c.end
      /\ _get(lexData, lexOut) = (IF c.kind = "obj" THEN CLOSE_BRACE ELSE CLOSE_BRACKET)
      /\ i = c.end + 1

\* The container skipped holds a container of its own kind and a string with
\* a closing delimiter of that kind and an escaped quote.
C14_Witness ==
  /\ pc = "skipped" /\ lexOut = Len(lexData) - 1
  /\ \E c \in BlockAt : \E inner, str \in toks :
       /\ inner.kind = c.kind /\ c.start < inner.start /\ inner.end < c.end
       /\ str.kind \in {"str", "key"} /\ inner.start < str.start /\ str.end < inner.end
       /\ \E j, k \in (str.start + 1)..(str.end - 1) :
            /\ _get(lexData, j) = _get(lexData, c.end)
            /\ _get(lexData, k) = QUOTE

====
